---- MODULE Spec2Model ----
(***************************************************************************)
(* rtc (Rod's Terminal Colours): the colour-line parser / rewriter of      *)
(* kitty.conf, the key lists, randomize, shuffle, backup and load.         *)
(*                                                                         *)
(* Texts are sequences of one-character strings, so that trimming,         *)
(* prefix tests, searching for '#', line splitting and formatting are      *)
(* computed the way the Rust code computes them.                           *)
(***************************************************************************)
EXTENDS Integers, Sequences, FiniteSets, Bags, TLC

VARIABLES
    config,     \* content of kitty.conf (a text)
    backups,    \* backup store: file name -> Some(content of the file), or None
    backed_up,  \* file name -> Some(the palette extracted when the file was last written),
                \* as long as no load has been followed by another operation since; else None
    op,         \* the last operation run: its name and its arguments
    pre,        \* content of kitty.conf before the last operation
    palette,    \* the map handed to update_kitty_config_with_colours by the last operation (Some), or None
    outcome,    \* how the last operation ended: "none", "ok", "error" (Err returned) or "panic"
    wrote,      \* whether the last operation reached fs::write on kitty.conf
    steps       \* number of operations run so far

vars == <<config, backups, backed_up, op, pre, palette, outcome, wrote, steps>>

-----------------------------------------------------------------------------
(* Texts *)

\* char::is_whitespace, restricted to the characters of the modelled texts
WhiteSpace == {" ", "\t", "\r", "\n"}

\* char::is_ascii_hexdigit
HexDigits == {"0", "1", "2", "3", "4", "5", "6", "7", "8", "9",
              "a", "b", "c", "d", "e", "f", "A", "B", "C", "D", "E", "F"}

MinOf(S) == CHOOSE x \in S : \A y \in S : x <= y
MaxOf(S) == CHOOSE x \in S : \A y \in S : x >= y

\* str::trim_start
TrimStart(s) ==
    LET keep == {i \in 1..Len(s) : s[i] \notin WhiteSpace}
    IN  IF keep = {} THEN <<>> ELSE SubSeq(s, MinOf(keep), Len(s))

\* str::trim_end
TrimEnd(s) ==
    LET keep == {i \in 1..Len(s) : s[i] \notin WhiteSpace}
    IN  IF keep = {} THEN <<>> ELSE SubSeq(s, 1, MaxOf(keep))

\* str::trim
Trim(s) == TrimEnd(TrimStart(s))

\* str::starts_with
StartsWith(s, p) == Len(p) <= Len(s) /\ SubSeq(s, 1, Len(p)) = p

\* str::find(char): position of the first occurrence, 0 for None
Find(s, c) ==
    LET hits == {i \in 1..Len(s) : s[i] = c}
    IN  IF hits = {} THEN 0 ELSE MinOf(hits)

\* the slice s[from..] (from counted from 1)
From(s, from) == SubSeq(s, from, Len(s))

RECURSIVE SplitInclusive(_)
\* str::split_inclusive('\n'): the pieces keep their terminator
SplitInclusive(s) ==
    IF s = <<>> THEN <<>>
    ELSE LET p == Find(s, "\n")
         IN  IF p = 0 THEN <<s>>
             ELSE <<SubSeq(s, 1, p)>> \o SplitInclusive(From(s, p + 1))

\* what str::lines does to one piece: strip one "\n", and then one "\r"
\* only if the "\n" was there
StripLineEnding(piece) ==
    IF piece # <<>> /\ piece[Len(piece)] = "\n"
    THEN LET l == SubSeq(piece, 1, Len(piece) - 1)
         IN  IF l # <<>> /\ l[Len(l)] = "\r" THEN SubSeq(l, 1, Len(l) - 1) ELSE l
    ELSE piece

\* str::lines
Lines(s) ==
    LET pieces == SplitInclusive(s)
    IN  [i \in 1..Len(pieces) |-> StripLineEnding(pieces[i])]

RECURSIVE Concat(_)
\* Vec<String>::join("")
Concat(ss) == IF ss = <<>> THEN <<>> ELSE Head(ss) \o Concat(Tail(ss))

-----------------------------------------------------------------------------
(* The key tables *)

Color == <<"c", "o", "l", "o", "r">>
Digits(n) ==
    LET d == <<"0", "1", "2", "3", "4", "5", "6", "7", "8", "9">>
    IN  IF n < 10 THEN <<d[n + 1]>> ELSE <<d[(n \div 10) + 1], d[(n % 10) + 1]>>

Foreground == <<"f", "o", "r", "e", "g", "r", "o", "u", "n", "d">>
Background == <<"b", "a", "c", "k", "g", "r", "o", "u", "n", "d">>
Cursor     == <<"c", "u", "r", "s", "o", "r">>
ColorN(n)  == Color \o Digits(n)

\* COLOUR_KEYS, in the order of the array
COLOUR_KEYS ==
    <<Foreground, Background, Cursor>> \o [i \in 1..16 |-> ColorN(i - 1)]

KeySet == {COLOUR_KEYS[i] : i \in 1..Len(COLOUR_KEYS)}

\* COLOUR_KEY_ALIASES: alias -> full key
COLOUR_KEY_ALIASES ==
    LET named == {<<<<"f", "g">>, Foreground>>, <<<<"b", "g">>, Background>>,
                  <<<<"c", "s">>, Cursor>>}
        numbered == {<<<<"c">> \o Digits(n), ColorN(n)>> : n \in 0..15}
        pairs == named \cup numbered
    IN  [a \in {p[1] : p \in pairs} |-> (CHOOSE p \in pairs : p[1] = a)[2]]

-----------------------------------------------------------------------------
(* Palette maps: functions from key texts to hex texts *)

EmptyMap == [k \in {} |-> <<>>]
Insert(m, k, v) == [x \in (DOMAIN m) \cup {k} |-> IF x = k THEN v ELSE m[x]]

Zeros == <<"0", "0", "0", "0", "0", "0">>

-----------------------------------------------------------------------------
(* extract_current_colours *)

\* a test that accepts any text between the key and the '#'
KeyBindsHashAnyText(t, key) ==
    StartsWith(t, key) /\ Find(From(t, Len(key) + 1), "#") # 0

\* the test of lines 50-58 for one key on a line with leading whitespace
\* removed: the key is a prefix and only whitespace separates it from the
\* first '#' of the rest
KeyBindsHash(t, key) ==
    /\ StartsWith(t, key)
    /\ LET rest == From(t, Len(key) + 1)
           h == Find(rest, "#")
       IN  h # 0 /\ Trim(SubSeq(rest, 1, h - 1)) = <<>>

\* the hex code read after the '#' of a line on which key binds it
HexAfterHash(t, key) ==
    LET rest == From(t, Len(key) + 1)
    IN  Trim(From(rest, Find(rest, "#") + 1))

IsHexCode(h) == Len(h) = 6 /\ \A i \in 1..Len(h) : h[i] \in HexDigits

\* the body of the loop over lines: the indices of the keys that would be
\* inserted for this line; the loop breaks at the first
ExtractKeyIndices(line) ==
    LET t == Trim(line)
    IN  IF t = <<>> \/ t[1] = "#" THEN {}
        ELSE {i \in 1..Len(COLOUR_KEYS) :
                 KeyBindsHash(t, COLOUR_KEYS[i]) /\ IsHexCode(HexAfterHash(t, COLOUR_KEYS[i]))}

RECURSIVE ExtractLines(_, _)
ExtractLines(ls, acc) ==
    IF ls = <<>> THEN acc
    ELSE LET hits == ExtractKeyIndices(Head(ls))
             key == COLOUR_KEYS[MinOf(hits)]
         IN  ExtractLines(Tail(ls),
                 IF hits = {} THEN acc
                 ELSE Insert(acc, key, HexAfterHash(Trim(Head(ls)), key)))

extract_current_colours(content) == ExtractLines(Lines(content), EmptyMap)

-----------------------------------------------------------------------------
(* update_kitty_config_with_colours *)

\* a rewrite that, like the extraction, wants six hex digits after the '#'
UpdateKeyIndicesHexOnly(line) ==
    {i \in 1..Len(COLOUR_KEYS) :
        /\ KeyBindsHash(TrimStart(line), COLOUR_KEYS[i])
        /\ IsHexCode(HexAfterHash(TrimStart(line), COLOUR_KEYS[i]))}

\* the indices of the keys for which the test of lines 81-85 succeeds
UpdateKeyIndices(line) ==
    LET trimmed_line_start == TrimStart(line)
    IN  {i \in 1..Len(COLOUR_KEYS) : KeyBindsHash(trimmed_line_start, COLOUR_KEYS[i])}

\* line 86: the slice of the line up to the end of the key
PrefixOf(line, key) ==
    SubSeq(line, 1, Len(line) - Len(From(TrimStart(line), Len(key) + 1)))

\* a rewrite that puts no space before the '#'
FormatColourLineNoSpace(prefix, hex) == TrimEnd(prefix) \o <<"#">> \o hex \o <<"\n">>

\* a rewrite that leaves out the '#'
FormatColourLineNoHash(prefix, hex) == TrimEnd(prefix) \o <<" ">> \o hex \o <<"\n">>

\* line 87: format!("{} #{}\n", prefix.trim_end(), hex)
FormatColourLine(prefix, hex) == TrimEnd(prefix) \o <<" ", "#">> \o hex \o <<"\n">>

\* a copy of the other lines that trims them
FormatOtherLineTrimmed(line) == TrimEnd(line) \o <<"\n">>

\* line 95: format!("{}\n", line)
FormatOtherLine(line) == line \o <<"\n">>

\* whether the indexing colours_to_apply[key] of line 87 panics on this line
LinePanics(line, colours_to_apply) ==
    LET hits == UpdateKeyIndices(line)
    IN  hits # {} /\ COLOUR_KEYS[MinOf(hits)] \notin DOMAIN colours_to_apply

\* the text pushed for one line (when the line does not panic)
NewLine(line, colours_to_apply) ==
    LET hits == UpdateKeyIndices(line)
        key == COLOUR_KEYS[MinOf(hits)]
    IN  IF hits = {} THEN FormatOtherLine(line)
        ELSE FormatColourLine(PrefixOf(line, key), colours_to_apply[key])

\* The result of the call on a file of the given content: the process panics
\* before fs::write if some line panics, and else the new content is written.
update_kitty_config_with_colours(content, colours_to_apply) ==
    LET ls == Lines(content)
    IN  IF \E i \in 1..Len(ls) : LinePanics(ls[i], colours_to_apply)
        THEN [panicked |-> TRUE, content |-> content]
        ELSE [panicked |-> FALSE,
              content |-> Concat([i \in 1..Len(ls) |-> NewLine(ls[i], colours_to_apply)])]

-----------------------------------------------------------------------------
(* parse_color_keys_input *)

\* Option<T>: None is the empty sequence, Some(x) the sequence holding x
None == <<>>
Some(x) == <<x>>

RECURSIVE TrimStartMatches(_, _)
\* str::trim_start_matches(char): removes every leading occurrence
TrimStartMatches(s, c) ==
    IF s # <<>> /\ Head(s) = c THEN TrimStartMatches(Tail(s), c) ELSE s

RECURSIVE TrimEndMatches(_, _)
\* str::trim_end_matches(char): removes every trailing occurrence
TrimEndMatches(s, c) ==
    IF s # <<>> /\ s[Len(s)] = c THEN TrimEndMatches(SubSeq(s, 1, Len(s) - 1), c) ELSE s

RECURSIVE Split(_, _)
\* str::split(char): at least one piece, pieces may be empty
Split(s, c) ==
    LET p == Find(s, c)
    IN  IF p = 0 THEN <<s>>
        ELSE <<SubSeq(s, 1, p - 1)>> \o Split(From(s, p + 1), c)

\* line 166: the parentheses are removed from the text as given, before any
\* trimming of whitespace
CleanKeyList(s) == TrimEndMatches(TrimStartMatches(s, "("), ")")

\* lines 168-179 for one part: the keys it adds to result_keys
ResolvePart(part) ==
    LET trimmed_part == Trim(part)
    IN  IF trimmed_part = <<>> THEN <<>>
        ELSE IF trimmed_part \in DOMAIN COLOUR_KEY_ALIASES
             THEN <<COLOUR_KEY_ALIASES[trimmed_part]>>
        ELSE IF trimmed_part \in KeySet THEN <<trimmed_part>>
        ELSE <<>>

parse_color_keys_input(input) ==
    IF input = None THEN <<>>
    ELSE LET parts == Split(CleanKeyList(input[1]), ",")
         IN  Concat([i \in 1..Len(parts) |-> ResolvePart(parts[i])])

\* Vec<String>::contains
Contains(list, x) == \E i \in 1..Len(list) : list[i] = x

\* lines 199-203 and 260-264: whether a key takes part in randomize / shuffle
ForceDecides(forced_keys) == forced_keys # <<>>

ShouldParticipate(forced_keys, excluded_keys, key) ==
    IF ForceDecides(forced_keys) THEN Contains(forced_keys, key)
    ELSE ~Contains(excluded_keys, key)

\* the keys that take part for a pair of --force / --exception arguments
Participants(force_keys_input, exception_keys_input) ==
    {k \in KeySet :
        ShouldParticipate(parse_color_keys_input(force_keys_input),
                          parse_color_keys_input(exception_keys_input), k)}

-----------------------------------------------------------------------------
(* generate_random_colour_hex *)

\* format!("{:x}", byte): no leading zero
Hex2NoPad(byte) ==
    LET d == <<"0", "1", "2", "3", "4", "5", "6", "7", "8", "9",
               "a", "b", "c", "d", "e", "f">>
    IN  IF byte < 16 THEN <<d[byte + 1]>> ELSE <<d[(byte \div 16) + 1], d[(byte % 16) + 1]>>

\* format!("{:02x}", byte)
Hex2(byte) ==
    LET d == <<"0", "1", "2", "3", "4", "5", "6", "7", "8", "9",
               "a", "b", "c", "d", "e", "f">>
    IN  <<d[(byte \div 16) + 1], d[(byte % 16) + 1]>>

\* the three bytes are the random source's
generate_random_colour_hex(bytes) == Hex2(bytes[1]) \o Hex2(bytes[2]) \o Hex2(bytes[3])

-----------------------------------------------------------------------------
(* hex_to_rgb *)

\* char::to_digit(16) of a hexadecimal digit
HexDigitValue(c) ==
    LET lower == <<"0", "1", "2", "3", "4", "5", "6", "7", "8", "9",
                   "a", "b", "c", "d", "e", "f">>
        upper == <<"0", "1", "2", "3", "4", "5", "6", "7", "8", "9",
                   "A", "B", "C", "D", "E", "F">>
    IN  CHOOSE v \in 0..15 : c = lower[v + 1] \/ c = upper[v + 1]

\* u8::from_str_radix(src, 16) on a slice of at most two characters: an empty
\* slice and a lone sign are errors, one leading '+' is accepted and '-' is
\* not, every other character has to be a hexadecimal digit
FromStrRadix16(src) ==
    LET digits == IF Len(src) > 1 /\ Head(src) = "+" THEN Tail(src) ELSE src
    IN  IF digits = <<>> \/ \E i \in 1..Len(digits) : digits[i] \notin HexDigits
        THEN None
        ELSE Some(IF Len(digits) = 1 THEN HexDigitValue(digits[1])
                  ELSE 16 * HexDigitValue(digits[1]) + HexDigitValue(digits[2]))

\* Ok((r, g, b)) is Some(<<r, g, b>>), Err is None
hex_to_rgb(hex) ==
    IF Len(hex) # 6 THEN None
    ELSE LET r == FromStrRadix16(SubSeq(hex, 1, 2))
             g == FromStrRadix16(SubSeq(hex, 3, 4))
             b == FromStrRadix16(SubSeq(hex, 5, 6))
         IN  IF r = None \/ g = None \/ b = None THEN None
             ELSE Some(<<r[1], g[1], b[1]>>)

-----------------------------------------------------------------------------
(* Bounds and inputs *)

\* at most this many lines in a kitty.conf the model starts from
MaxLines == 2
\* at most this many operations in a run of the tool's operations
MaxSteps == 2
\* at most this many applications of the rewrite in a run of SpecUpdate
MaxApply == 2

Spaces(n) == [i \in 1..n |-> " "]

H1a1b26 == <<"1", "a", "1", "b", "2", "6">>
Hc0caf5 == <<"c", "0", "c", "a", "f", "5">>
HAbCdEf == <<"A", "b", "C", "d", "E", "f">>

\* The lines a kitty.conf of the model is made of, in the order they have in
\* the file: colour lines in several layouts, and lines that are not colour
\* lines or only look like them.
SampleLines == <<
    Background \o Spaces(12) \o <<"#">> \o H1a1b26,                  \* wide gap
    Foreground \o <<" ", "#">> \o Hc0caf5,
    <<" ", " ">> \o Cursor \o <<"\t", "#">> \o HAbCdEf,              \* indented, tab
    ColorN(1) \o <<"#">> \o H1a1b26,                                 \* no gap
    ColorN(10) \o <<" ", "#">> \o Hc0caf5,
    <<"#", " ", "c">>,                                               \* comment
    <<>>,                                                            \* blank line
    <<"f", "o", "n", "t", " ", "9">>,                                \* other setting
    Background \o <<"_", "x", " ", "#">> \o H1a1b26,                 \* other setting with a colour
    Foreground \o <<" ", "#", "z", "z", "z">>,                       \* not a hex code
    ColorN(0) \o <<" ", "#">> \o Zeros \o <<" ", "#", " ", "k">>,    \* text after the hex code
    Foreground \o <<" ", "x", " ", "#">> \o Hc0caf5,                 \* text before the '#'
    ColorN(15) \o <<" ", "#">> \o Hc0caf5 \o <<" ", " ">>,           \* trailing whitespace
    <<" ", "#", "x">> >>                                             \* indented comment

\* line terminators found in files: LF, CRLF, and CR CR LF
Terminators == {<<"\n">>, <<"\r", "\n">>, <<"\r", "\r", "\n">>}

\* the file made of the sample lines picked, every line ended by term, the
\* last one only if final
TextOf(picked, term, final) ==
    LET idx == [i \in 1..Cardinality(picked) |->
                   CHOOSE x \in picked : Cardinality({y \in picked : y < x}) = i - 1]
        n == Len(idx)
    IN  Concat([i \in 1..n |->
                   SampleLines[idx[i]] \o (IF i < n \/ final THEN term ELSE <<>>)])

PickedLines == {I \in SUBSET (1..Len(SampleLines)) : Cardinality(I) <= MaxLines}

\* the texts the rewrite is applied to
Texts == {TextOf(I, t, f) : I \in PickedLines, t \in Terminators, f \in BOOLEAN}

\* the kitty.conf files the tool's operations start from: made of the wide
\* background line, the foreground line, the indented cursor line, the
\* comment and the foreground line without a hex code
ConfigLines == {1, 2, 3, 6, 10}
ConfigFiles == {TextOf(I, <<"\n">>, TRUE) : I \in {J \in PickedLines : J \subseteq ConfigLines}}

\* palette maps handed to the rewrite: full and partial, with equal and with
\* different values
PaletteOver(keys, a, b) ==
    [k \in keys |-> IF \E i \in 1..Len(COLOUR_KEYS) : COLOUR_KEYS[i] = k /\ i % 2 = 1
                    THEN a ELSE b]

\* {background: "000000", foreground: "c0caf5"}
TwoKeyPalette == [k \in {Foreground, Background} |-> IF k = Background THEN Zeros ELSE Hc0caf5]

Palettes ==
    {PaletteOver(K, v[1], v[2]) :
        K \in {KeySet, {Background}, {Foreground, Background, Cursor}, {}},
        v \in {<<Zeros, Zeros>>, <<HAbCdEf, H1a1b26>>}} \cup {TwoKeyPalette}

\* the --force / --exception arguments of the model
ListFgC0    == <<"(", "f", "g", ",", " ", "c", "0", ")">>
ListSpaced  == <<" ", "(", "f", "g", ",", " ", "c", "0", ")", " ">>
ListUnknown == <<"(", "z", "z", ")">>
ListNames   == Cursor \o <<",">> \o Background \o <<",", "c", "1", "0">>
ListInner   == <<"(", " ", "b", "g", " ", ",", ",", "c", "s", " ", ")">>

KeyLists == {ListFgC0, ListSpaced, ListUnknown, ListNames, ListInner}

\* cli.rs: --exception conflicts with --force, so at most one of them is given
PairsOf(lists) ==
    {<<None, None>>} \cup {<<Some(l), None>> : l \in lists}
                     \cup {<<None, Some(l)>> : l \in lists}

\* <<force, exception>> in the runs of several operations, and in the runs of
\* one randomize or shuffle
KeyListPairs == {<<None, None>>, <<Some(ListNames), None>>, <<None, Some(ListFgC0)>>}
AllKeyListPairs == PairsOf(KeyLists)

\* the --force and --hex-values arguments of the runs of set-colour
ListBg == <<"b", "g">>
SetKeyLists == {ListBg, ListFgC0, ListUnknown}

HexZeros    == Zeros
HexTwo      == Hc0caf5 \o <<",">> \o HAbCdEf
HexShort    == <<"1", "2", "3", "4", "5">>
HexNotDigit == <<"0", "0", "0", "0", "0", "g">>
HexSigned   == <<"+", "a", "+", "b", "+", "c">>
SetHexLists == {HexZeros, HexTwo, HexShort, HexNotDigit, HexSigned}

\* the values the random source is taken to deliver
RandomBytes == {<<0, 10, 255>>, <<171, 205, 239>>}

\* the --name arguments of the model
BackupNames == {None, Some(<<"t">>)}

-----------------------------------------------------------------------------
(* config.rs: get_colours_backup_path *)

Extension == <<".", "r", "t", "c", "_", "c", "o", "l", "o", "u", "r", "s">>
DefaultName == <<"d", "e", "f", "a", "u", "l", "t">>

get_colours_backup_path(backup_name) ==
    IF backup_name # None THEN backup_name[1] \o Extension
    ELSE DefaultName \o Extension

BackupPaths == {get_colours_backup_path(n) : n \in BackupNames}

-----------------------------------------------------------------------------
(* apply_random_colours_to_kitty *)

KeyIndex(k) == CHOOSE i \in 1..Len(COLOUR_KEYS) : COLOUR_KEYS[i] = k

\* lines 196-215: the generated map; draws gives the random bytes of each key
GeneratedColoursMap(current_colours, forced_keys, excluded_keys, draws) ==
    [k \in KeySet |->
        IF ShouldParticipate(forced_keys, excluded_keys, k)
        THEN generate_random_colour_hex(draws[k])
        ELSE IF k \in DOMAIN current_colours THEN current_colours[k] ELSE Zeros]

\* the keys of the lines the rewrite replaces in a text
RewrittenKeys(content) ==
    LET ls == Lines(content)
    IN  {COLOUR_KEYS[MinOf(UpdateKeyIndices(ls[i]))] :
            i \in {j \in 1..Len(ls) : UpdateKeyIndices(ls[j]) # {}}}

-----------------------------------------------------------------------------
(* shuffle_current_colours (colours.rs) *)

RECURSIVE Filter(_, _)
\* the members of a set kept from a list, in the order of the list
Filter(list, keep) ==
    IF list = <<>> THEN <<>>
    ELSE (IF Head(list) \in keep THEN <<Head(list)>> ELSE <<>>) \o Filter(Tail(list), keep)

\* lines 257-280: the keys pushed to shufflable_keys_full_names
ShufflableKeys(current_colours_map, forced_keys, excluded_keys) ==
    Filter(COLOUR_KEYS,
           {k \in KeySet : /\ ShouldParticipate(forced_keys, excluded_keys, k)
                           /\ k \in DOMAIN current_colours_map})

\* lines 257-280: fixed_colours_map
FixedColoursMap(current_colours_map, forced_keys, excluded_keys) ==
    [k \in {x \in KeySet : ~ShouldParticipate(forced_keys, excluded_keys, x)} |->
        IF k \in DOMAIN current_colours_map THEN current_colours_map[k] ELSE Zeros]

\* lines 287-292
ShufflableHexValues(current_colours_map, keys) ==
    [i \in 1..Len(keys) |->
        IF keys[i] \in DOMAIN current_colours_map THEN current_colours_map[keys[i]] ELSE Zeros]

\* slice::shuffle: the values rearranged by a permutation of the positions
Shuffled(values, perm) == [i \in 1..Len(values) |-> values[perm[i]]]

Perms(n) == {f \in [1..n -> 1..n] : \A i, j \in 1..n : f[i] = f[j] => i = j}

\* lines 298-315: every key that is not in fixed_colours_map takes the next
\* shuffled value, in the order of COLOUR_KEYS, and 000000 when none is left
ShuffledColoursMap(fixed_colours_map, shuffled_values) ==
    [k \in KeySet |->
        IF k \in DOMAIN fixed_colours_map THEN fixed_colours_map[k]
        ELSE LET shufflable_idx ==
                     Cardinality({j \in 1..(KeyIndex(k) - 1) :
                                     COLOUR_KEYS[j] \notin DOMAIN fixed_colours_map}) + 1
             IN  IF shufflable_idx <= Len(shuffled_values)
                 THEN shuffled_values[shufflable_idx] ELSE Zeros]

-----------------------------------------------------------------------------
(* shuffle_current_colours (main.rs) *)

\* line 260: the values of the map, in some order
ValueLists(current_colours_map) ==
    LET keys == DOMAIN current_colours_map
        n == Cardinality(keys)
    IN  {[i \in 1..n |-> current_colours_map[order[i]]] :
            order \in {f \in [1..n -> keys] : \A i, j \in 1..n : f[i] = f[j] => i = j}}

\* lines 270-272: hex_values[i] is indexed for each of the 19 keys
MainShufflePanics(hex_values) == Len(hex_values) < Len(COLOUR_KEYS)

MainShuffledColoursMap(hex_values) == [k \in KeySet |-> hex_values[KeyIndex(k)]]

-----------------------------------------------------------------------------
(* create_colours_backup and load_colours_from_backup *)

\* a backup that leaves out the keys that have no value
BackupLinePresentOnly(key, current_colours) ==
    IF key \in DOMAIN current_colours
    THEN key \o <<"#">> \o current_colours[key] \o <<"\n">> ELSE <<>>

\* lines 117-125
BackupLine(key, current_colours) ==
    key \o <<"#">> \o (IF key \in DOMAIN current_colours THEN current_colours[key] ELSE Zeros)
        \o <<"\n">>

BackupContent(current_colours) ==
    Concat([i \in 1..Len(COLOUR_KEYS) |-> BackupLine(COLOUR_KEYS[i], current_colours)])

RECURSIVE LoadLines(_, _)
\* lines 147-153
LoadLines(ls, acc) ==
    IF ls = <<>> THEN acc
    ELSE LET line == Head(ls)
             hash_pos == Find(line, "#")
         IN  LoadLines(Tail(ls),
                 IF hash_pos = 0 THEN acc
                 ELSE Insert(acc, Trim(SubSeq(line, 1, hash_pos - 1)),
                                  Trim(From(line, hash_pos + 1))))

ColoursToApply(backup_content) == LoadLines(Lines(backup_content), EmptyMap)

-----------------------------------------------------------------------------
(* The tool's operations on kitty.conf and the backup store *)

\* cli.rs, Args: the operation chosen, --force, --exception, --name and --hex-values
Args(name, force, exception, backup_name, hex_values) ==
    [name |-> name, force |-> force, exception |-> exception,
     backup_name |-> backup_name, hex_values |-> hex_values]

NoOp == Args("none", None, None, None, None)

\* the palettes remembered for the backup files, once the next operation runs:
\* an operation that follows a load forgets them
StillBackedUp == IF op.name = "load" THEN [p \in BackupPaths |-> None] ELSE backed_up

Init ==
    /\ config \in ConfigFiles
    /\ backups = [p \in BackupPaths |-> None]
    /\ backed_up = [p \in BackupPaths |-> None]
    /\ op = NoOp
    /\ pre = config
    /\ palette = None
    /\ outcome = "none"
    /\ wrote = FALSE
    /\ steps = 0

\* What an operation that ends in update_kitty_config_with_colours leaves.
RewriteWith(args, colours_to_apply) ==
    \E res \in {update_kitty_config_with_colours(config, colours_to_apply)} :
        /\ config' = res.content
        /\ op' = args
        /\ pre' = config
        /\ palette' = Some(colours_to_apply)
        /\ outcome' = IF res.panicked THEN "panic" ELSE "ok"
        /\ wrote' = ~res.panicked
        /\ steps' = steps + 1

Rewrite(name, force, exception, backup_name, colours_to_apply) ==
    RewriteWith(Args(name, force, exception, backup_name, None), colours_to_apply)

\* What an operation that ends before any rewrite leaves.
NoRewriteWith(args, how) ==
    /\ op' = args
    /\ pre' = config
    /\ palette' = None
    /\ outcome' = how
    /\ wrote' = FALSE
    /\ steps' = steps + 1
    /\ UNCHANGED config

NoRewrite(name, force, exception, backup_name, how) ==
    NoRewriteWith(Args(name, force, exception, backup_name, None), how)

\* rtc -r [-f list | -e list]. Bytes are drawn for the keys that take part; those
\* drawn for a key without a line that the rewrite replaces reach nothing, and
\* are taken to be the same for all such keys.
apply_random_colours_to_kitty(exception_keys_input, force_keys_input) ==
    \E current_colours \in {extract_current_colours(config)} :
    \E forced_keys \in {parse_color_keys_input(force_keys_input)} :
    \E excluded_keys \in {parse_color_keys_input(exception_keys_input)} :
    \E drawn \in [{k \in RewrittenKeys(config) :
                      ShouldParticipate(forced_keys, excluded_keys, k)} -> RandomBytes] :
    \E generated_colours_map \in
          {GeneratedColoursMap(current_colours, forced_keys, excluded_keys,
              [k \in KeySet |-> IF k \in DOMAIN drawn THEN drawn[k] ELSE <<0, 10, 255>>])} :
        /\ Rewrite("random", force_keys_input, exception_keys_input, None,
                   generated_colours_map)
        /\ UNCHANGED backups /\ backed_up' = StillBackedUp

\* rtc -s [-f list | -e list], colours.rs
shuffle_current_colours(exception_keys_input, force_keys_input) ==
    \E current_colours_map \in {extract_current_colours(config)} :
    \E forced_keys \in {parse_color_keys_input(force_keys_input)} :
    \E excluded_keys \in {parse_color_keys_input(exception_keys_input)} :
    \E keys \in {ShufflableKeys(current_colours_map, forced_keys, excluded_keys)} :
    \E fixed \in {FixedColoursMap(current_colours_map, forced_keys, excluded_keys)} :
        /\ IF Len(keys) < 2
           THEN NoRewrite("shuffle", force_keys_input, exception_keys_input, None, "ok")
           ELSE \E perm \in Perms(Len(keys)) :
                   Rewrite("shuffle", force_keys_input, exception_keys_input, None,
                           ShuffledColoursMap(fixed,
                               Shuffled(ShufflableHexValues(current_colours_map, keys), perm)))
        /\ UNCHANGED backups /\ backed_up' = StillBackedUp

\* rtc -s, main.rs
main_shuffle_current_colours ==
    \E hex_values \in ValueLists(extract_current_colours(config)) :
        /\ IF MainShufflePanics(hex_values)
           THEN NoRewrite("main_shuffle", None, None, None, "panic")
           ELSE Rewrite("main_shuffle", None, None, None, MainShuffledColoursMap(hex_values))
        /\ UNCHANGED backups /\ backed_up' = StillBackedUp

\* rtc -b [-n name]; main finds kitty.conf before it calls the operation
create_colours_backup(backup_name) ==
    /\ \E current_colours \in {extract_current_colours(config)} :
           /\ backups' = [backups EXCEPT ![get_colours_backup_path(backup_name)] =
                             Some(BackupContent(current_colours))]
           /\ backed_up' = [StillBackedUp EXCEPT ![get_colours_backup_path(backup_name)] =
                                Some(current_colours)]
    /\ NoRewrite("backup", None, None, backup_name, "ok")

\* rtc -l [-n name]
load_colours_from_backup(backup_name) ==
    \E file \in {backups[get_colours_backup_path(backup_name)]} :
        /\ IF file = None
           THEN NoRewrite("load", None, None, backup_name, "error")
           ELSE Rewrite("load", None, None, backup_name, ColoursToApply(file[1]))
        /\ UNCHANGED backups /\ backed_up' = StillBackedUp

\* rtc -g
print_current_colours_to_terminal ==
    /\ NoRewrite("print", None, None, None, "ok")
    /\ UNCHANGED backups /\ backed_up' = StillBackedUp

\* rtc -c -f list -h list (section 4.6: Explicit Set). Each alias of the key
\* list, resolved: <<key>>, or <<>> for one that is not resolved
ResolveAliases(force_keys_input) ==
    LET parts == Split(CleanKeyList(force_keys_input[1]), ",")
    IN  [i \in 1..Len(parts) |-> ResolvePart(parts[i])]

\* the hex strings of the --hex-values list
HexStrings(hex_values_input) ==
    LET parts == Split(hex_values_input[1], ",")
    IN  [i \in 1..Len(parts) |-> Trim(parts[i])]

RECURSIVE OverridesMap(_, _, _)
\* the PaletteMap containing exactly the overrides
OverridesMap(keys, hexes, acc) ==
    IF keys = <<>> THEN acc
    ELSE OverridesMap(Tail(keys), Tail(hexes), Insert(acc, Head(keys)[1], Head(hexes)))

set_colour(force_keys_input, hex_values_input) ==
    \E keys \in {ResolveAliases(force_keys_input)} :
    \E hexes \in {HexStrings(hex_values_input)} :
        /\ IF \/ Len(keys) # Len(hexes)
              \/ \E i \in 1..Len(keys) : keys[i] = <<>>
              \/ \E i \in 1..Len(hexes) : hex_to_rgb(hexes[i]) = None
           THEN NoRewriteWith(Args("set", force_keys_input, None, None, hex_values_input),
                              "error")
           ELSE RewriteWith(Args("set", force_keys_input, None, None, hex_values_input),
                            OverridesMap(keys, hexes, EmptyMap))
        /\ UNCHANGED backups /\ backed_up' = StillBackedUp

Random ==
    /\ steps < MaxSteps
    /\ \E fe \in KeyListPairs : apply_random_colours_to_kitty(fe[2], fe[1])

Shuffle ==
    /\ steps < MaxSteps
    /\ \E fe \in KeyListPairs : shuffle_current_colours(fe[2], fe[1])

MainShuffle == steps < MaxSteps /\ main_shuffle_current_colours

Backup == steps < MaxSteps /\ \E n \in BackupNames : create_colours_backup(n)

Load == steps < MaxSteps /\ \E n \in BackupNames : load_colours_from_backup(n)

GetColours == steps < MaxSteps /\ print_current_colours_to_terminal

Next == Random \/ Shuffle \/ MainShuffle \/ Backup \/ Load \/ GetColours

Spec == Init /\ [][Next]_vars

-----------------------------------------------------------------------------
(* One randomize or shuffle, with every --force / --exception argument *)

RandomOnce ==
    /\ steps = 0
    /\ \E fe \in AllKeyListPairs : apply_random_colours_to_kitty(fe[2], fe[1])

ShuffleOnce ==
    /\ steps = 0
    /\ \E fe \in AllKeyListPairs : shuffle_current_colours(fe[2], fe[1])

NextLists == RandomOnce \/ ShuffleOnce

SpecLists == Init /\ [][NextLists]_vars

-----------------------------------------------------------------------------
(* One set-colour, with every pair of a key list and a list of hex values *)

SetColourOnce ==
    /\ steps = 0
    /\ \E f \in SetKeyLists, h \in SetHexLists : set_colour(Some(f), Some(h))

NextSet == SetColourOnce

SpecSet == Init /\ [][NextSet]_vars

-----------------------------------------------------------------------------
(* The rewrite on its own: any text, any palette map, applied repeatedly *)

InitUpdate ==
    /\ config \in Texts
    /\ palette \in {Some(m) : m \in Palettes}
    /\ backups = [p \in BackupPaths |-> None]
    /\ backed_up = [p \in BackupPaths |-> None]
    /\ op = NoOp
    /\ pre = config
    /\ outcome = "none"
    /\ wrote = FALSE
    /\ steps = 0

ApplyColours ==
    /\ steps < MaxApply
    /\ Rewrite("update", None, None, None, palette[1])
    /\ UNCHANGED backups /\ backed_up' = StillBackedUp

NextUpdate == ApplyColours

SpecUpdate == InitUpdate /\ [][NextUpdate]_vars

-----------------------------------------------------------------------------
(* Properties of the rewrite, checked under SpecUpdate *)

\* the state after the first application of the rewrite
Applied == op.name = "update" /\ steps = 1

\* the pieces of a text ended by "\n", without that "\n"
OutputLines(text) ==
    LET pieces == SplitInclusive(text)
    IN  [i \in 1..Len(pieces) |->
            IF pieces[i][Len(pieces[i])] = "\n"
            THEN SubSeq(pieces[i], 1, Len(pieces[i]) - 1) ELSE pieces[i]]

\* the ways to read a line as <indent><key><whitespace>#<six hex digits>:
\* the length of the indentation, the key and the length of the whitespace
ColourLineForms(line) ==
    {f \in {<<ind, key, Len(line) - 7 - ind - Len(key)>> : ind \in 0..Len(line), key \in KeySet} :
        LET ind == f[1]
            key == f[2]
            gap == f[3]
            hash == ind + Len(key) + gap + 1
        IN  /\ gap >= 0
            /\ \A i \in 1..ind : line[i] \in WhiteSpace
            /\ SubSeq(line, ind + 1, ind + Len(key)) = key
            /\ \A i \in (ind + Len(key) + 1)..(hash - 1) : line[i] \in WhiteSpace
            /\ line[hash] = "#"
            /\ IsHexCode(From(line, hash + 1))}

\* a line with a known key that only whitespace separates from a '#'
IsColourLine(line) ==
    LET t == TrimStart(line) IN \E k \in KeySet : KeyBindsHash(t, k)
KeyOfLine(line) ==
    LET t == TrimStart(line) IN CHOOSE k \in KeySet : KeyBindsHash(t, k)

ExampleText ==
    Background \o Spaces(12) \o <<"#">> \o H1a1b26 \o <<"\n">>
        \o Foreground \o <<" ", "#">> \o Hc0caf5 \o <<"\n">>

\* C1 as stated: the rewrite completes and a line <indent><key><whitespace>#<hex>
\* keeps everything up to and including the '#' and ends in six hex digits; and
\* {background: "000000"} applied to the example text changes the hex value of
\* the background line only.
C1_WhitespaceKept ==
    Applied =>
        /\ outcome = "ok"
        /\ LET old == Lines(pre)
               new == OutputLines(config)
           IN  /\ Len(new) = Len(old)
               /\ \A i \in 1..Len(old) : \A f \in ColourLineForms(old[i]) :
                     LET hash == f[1] + Len(f[2]) + f[3] + 1
                     IN  /\ Len(new[i]) = Len(old[i])
                         /\ SubSeq(new[i], 1, hash) = SubSeq(old[i], 1, hash)
                         /\ IsHexCode(From(new[i], hash + 1))
        /\ (pre = ExampleText /\ palette = Some([k \in {Background} |-> Zeros]))
              => config = Background \o Spaces(12) \o <<"#">> \o Zeros \o <<"\n">>
                              \o Foreground \o <<" ", "#">> \o Hc0caf5 \o <<"\n">>

\* C1 (amended): when the rewrite completes, a line <indent><key><whitespace>#<hex>
\* becomes <indent><key>, one space, '#' and the value the map gives the key: the
\* indentation and the key are kept, the whitespace between the key and the '#'
\* is replaced by a single space. {background: "000000", foreground: "c0caf5"}
\* applied to the example text gives "background #000000\nforeground #c0caf5\n";
\* {background: "000000"} alone panics on the foreground line, and a rewrite that
\* panics leaves the file as it was.
C1_GapBecomesOneSpace ==
    Applied =>
        /\ outcome = "panic" => config = pre
        /\ outcome = "ok" =>
              LET old == Lines(pre)
                  new == OutputLines(config)
              IN  /\ Len(new) = Len(old)
                  /\ \A i \in 1..Len(old) : \A f \in ColourLineForms(old[i]) :
                        new[i] = SubSeq(old[i], 1, f[1] + Len(f[2])) \o <<" ", "#">>
                                     \o palette[1][f[2]]
        /\ (pre = ExampleText /\ palette = Some(TwoKeyPalette))
              => config = Background \o <<" ", "#">> \o Zeros \o <<"\n">>
                              \o Foreground \o <<" ", "#">> \o Hc0caf5 \o <<"\n">>
        /\ (pre = ExampleText /\ palette = Some([k \in {Background} |-> Zeros]))
              => outcome = "panic"

\* a completed rewrite of a text with an indented line and a line with a wide gap
C1_Witness ==
    /\ Applied /\ outcome = "ok"
    /\ \E i \in 1..Len(Lines(pre)) : \E f \in ColourLineForms(Lines(pre)[i]) : f[3] > 1
    /\ \E i \in 1..Len(Lines(pre)) : \E f \in ColourLineForms(Lines(pre)[i]) : f[1] > 0

\* C2 as stated: with a map that lacks some of the 19 keys the rewrite completes,
\* a colour line whose key is not in the map is left as it is, and only the lines
\* whose key is in the map are rewritten.
C2_PartialMapCompletes ==
    (Applied /\ DOMAIN palette[1] # KeySet) =>
        /\ outcome = "ok"
        /\ LET old == Lines(pre)
               new == OutputLines(config)
           IN  /\ Len(new) = Len(old)
               /\ \A i \in 1..Len(old) :
                     (IsColourLine(old[i]) /\ KeyOfLine(old[i]) \notin DOMAIN palette[1])
                        => new[i] = old[i]

\* the keys that have a colour line in a text
KeysWithLine(text) == {KeyOfLine(Lines(text)[i]) : i \in {j \in 1..Len(Lines(text)) : IsColourLine(Lines(text)[j])}}

Restrict(m, keys) == [k \in (DOMAIN m) \cap keys |-> m[k]]

\* C3 as stated: extraction from the text the rewrite produces with P gives P.
C3_ExtractGivesPalette ==
    Applied => (outcome = "ok" /\ extract_current_colours(config) = palette[1])

\* C3 (amended): the rewrite adds no line, so extraction from the text it
\* produces with P gives P restricted to the keys that have a colour line in the
\* text; and the rewrite panics, leaving the file as it was, exactly when such a
\* key is missing from P.
C3_ExtractGivesPaletteOfLines ==
    Applied =>
        /\ outcome = "panic" <=> ~(KeysWithLine(pre) \subseteq DOMAIN palette[1])
        /\ outcome = "panic" => config = pre
        /\ outcome = "ok" =>
              extract_current_colours(config) = Restrict(palette[1], KeysWithLine(pre))

\* a completed rewrite with a partial map, of a text with a line of a key of the
\* map and a line whose value was no hex code
C3_Witness ==
    /\ Applied /\ outcome = "ok"
    /\ DOMAIN palette[1] # KeySet
    /\ KeysWithLine(pre) # {}
    /\ KeysWithLine(pre) # DOMAIN extract_current_colours(pre)

\* C4 as stated: the second application of the same map gives the text the first
\* one gave.
C4_SecondApplicationSame ==
    (op.name = "update" /\ steps = 2) => config = pre

\* C5 as stated: the output has the lines of the input, and a line that is no
\* colour line is there byte for byte, its terminator included, as is the
\* presence or absence of the final newline.
C5_LinesAndTerminatorsKept ==
    (Applied /\ outcome = "ok") =>
        LET old == SplitInclusive(pre)
            new == SplitInclusive(config)
        IN  /\ Len(new) = Len(old)
            /\ \A i \in 1..Len(old) :
                  ~IsColourLine(StripLineEnding(old[i])) => new[i] = old[i]

\* C5 (amended): the output has as many lines as the input, in the same order,
\* and a line that is no colour line keeps its content; but every output line
\* ends in a single "\n": CRLF becomes LF and a missing final newline is added.
\* When the rewrite panics the file is left as it was.
C5_ContentKeptNewlineNormalised ==
    Applied =>
        /\ outcome = "panic" => config = pre
        /\ outcome = "ok" =>
              LET old == Lines(pre)
                  new == SplitInclusive(config)
              IN  /\ Len(new) = Len(old)
                  /\ \A i \in 1..Len(old) :
                        /\ new[i][Len(new[i])] = "\n"
                        /\ ~IsColourLine(old[i]) => new[i] = old[i] \o <<"\n">>

\* a completed rewrite of a text with CRLF line ends, no final newline, and a
\* line that is no colour line next to one that is
C5_Witness ==
    /\ Applied /\ outcome = "ok"
    /\ \E i, j \in 1..Len(Lines(pre)) :
          ~IsColourLine(Lines(pre)[i]) /\ Lines(pre)[i] # <<>> /\ IsColourLine(Lines(pre)[j])
    /\ \E i \in 1..Len(pre) : pre[i] = "\r"
    /\ pre[Len(pre)] # "\n"

-----------------------------------------------------------------------------
(* Properties of shuffle and of the key lists *)

\* the values a map gives the keys of a set, with their multiplicities
ValueBag(m, keys) ==
    [v \in {m[k] : k \in keys} |-> Cardinality({k \in keys : m[k] = v})]

\* the keys selected by the lists of the last operation, and those of them that
\* had a value in kitty.conf when it started
Selected == Participants(op.force, op.exception)
Eligible == Selected \cap DOMAIN extract_current_colours(pre)

\* C6 as stated: the map that shuffle applies gives the eligible keys the
\* multiset of values they had, and every fixed key the value it had, also when
\* a selected key is missing from the config.
C6_ShufflePermutes ==
    (op.name = "shuffle" /\ palette # None) =>
        LET current == extract_current_colours(pre)
        IN  /\ ValueBag(palette[1], Eligible) = ValueBag(current, Eligible)
            /\ \A k \in (KeySet \ Selected) \cap DOMAIN current : palette[1][k] = current[k]

\* the list that names the keys of a set, by their full names
RECURSIVE ListOf(_)
ListOf(keys) ==
    IF keys = {} THEN <<>>
    ELSE LET k == CHOOSE x \in keys : \A y \in keys : KeyIndex(x) <= KeyIndex(y)
         IN  k \o (IF keys = {k} THEN <<>> ELSE <<",">> \o ListOf(keys \ {k}))

\* C7 as stated: the keys that take part when the force list resolves to S are
\* the keys that take part when no force list is given and the exception list
\* resolves to the other keys.
C7_ForceIsComplementOfException ==
    (op.name \in {"random", "shuffle"} /\ op.force # None) =>
        LET S == {k \in KeySet : Contains(parse_color_keys_input(op.force), k)}
        IN  Participants(op.force, None) = Participants(None, Some(ListOf(KeySet \ S)))

\* C8 as stated: with a force list given, the keys it resolves to take part and
\* every other key keeps its value; a list of unknown aliases only makes no key
\* take part.
C8_ForceListDecides ==
    (op.name \in {"random", "shuffle"} /\ op.force # None /\ op.force # Some(<<>>)) =>
        LET S == {k \in KeySet : Contains(parse_color_keys_input(op.force), k)}
            before == extract_current_colours(pre)
            after == extract_current_colours(config)
        IN  /\ Selected = S
            /\ \A k \in (DOMAIN before) \ S : k \in DOMAIN after /\ after[k] = before[k]

\* what the list is said to resolve to: whitespace around the list and the
\* parentheses are ignored, then the tokens are trimmed and resolved in order
ResolvedAsStated(list) ==
    LET parts == Split(CleanKeyList(Trim(list)), ",")
    IN  Concat([i \in 1..Len(parts) |-> ResolvePart(parts[i])])

\* C9 as stated: a list resolves to the keys of its known tokens in order, the
\* parentheses and the whitespace around the list and around the tokens being
\* ignored; "(fg, c0)" gives foreground, color0, also with whitespace around it.
C9_ListResolves ==
    (op.name \in {"random", "shuffle"}) =>
        /\ op.force # None =>
              parse_color_keys_input(op.force) = ResolvedAsStated(op.force[1])
        /\ op.exception # None =>
              parse_color_keys_input(op.exception) = ResolvedAsStated(op.exception[1])
        /\ op.force \in {Some(ListFgC0), Some(ListSpaced)} =>
              parse_color_keys_input(op.force) = <<Foreground, ColorN(0)>>

\* C10 as stated: with fewer than 2 eligible keys shuffle writes nothing, leaves
\* the file as it was and ends without a fatal error.
C10_FewEligibleNoWrite ==
    (op.name \in {"shuffle", "main_shuffle"} /\ Cardinality(Eligible) < 2) =>
        (~wrote /\ config = pre /\ outcome = "ok")

-----------------------------------------------------------------------------
(* Properties of set-colour, checked under SpecSet *)

\* the aliases of a key list as the user lists them
ListedAliases(list) ==
    LET parts == Split(CleanKeyList(list), ",")
    IN  [i \in 1..Len(parts) |-> Trim(parts[i])]

\* the key an alias or a full name stands for
KeyOfAlias(a) == IF a \in KeySet THEN a ELSE COLOUR_KEY_ALIASES[a]

\* C11: explicit set is all-or-nothing. When the key list and the hex list
\* have different lengths, or some alias is not resolved, or some hex string
\* is not exactly 6 hex digits, set-colour ends with an error and the config
\* file is not written; otherwise it completes, and the palette extracted
\* afterwards is the one extracted before with exactly the listed keys (those
\* that have a line) set to the listed values.
C11_SetAllOrNothing ==
    op.name = "set" =>
        LET aliases == ListedAliases(op.force[1])
            hexes == HexStrings(op.hex_values)
            before == extract_current_colours(pre)
            listed == {KeyOfAlias(aliases[i]) : i \in 1..Len(aliases)}
            value(k) == hexes[MaxOf({i \in 1..Len(aliases) : KeyOfAlias(aliases[i]) = k})]
        IN  IF \/ Len(aliases) # Len(hexes)
               \/ \E i \in 1..Len(aliases) :
                      aliases[i] \notin KeySet \cup DOMAIN COLOUR_KEY_ALIASES
               \/ \E i \in 1..Len(hexes) : ~IsHexCode(hexes[i])
            THEN outcome = "error" /\ ~wrote /\ config = pre
            ELSE /\ outcome = "ok"
                 /\ wrote
                 /\ extract_current_colours(config) =
                        [k \in DOMAIN before \cup (listed \cap RewrittenKeys(pre)) |->
                            IF k \in listed THEN value(k) ELSE before[k]]

-----------------------------------------------------------------------------
(* Properties of backup and load, checked under Spec *)

\* C12: a backup writes exactly 19 lines key#hexvalue, one per known key in
\* the fixed key order; a key of the extracted palette is written with its
\* extracted value, a key missing from it as key#000000.
C12_BackupWritesNineteenLines ==
    op.name = "backup" =>
        LET file == backups[get_colours_backup_path(op.backup_name)]
            current == extract_current_colours(config)
        IN  /\ outcome = "ok"
            /\ file # None
            /\ LET pieces == SplitInclusive(file[1])
               IN  /\ Len(pieces) = 19
                   /\ \A i \in 1..Len(pieces) :
                          pieces[i] = COLOUR_KEYS[i] \o <<"#">>
                                        \o (IF COLOUR_KEYS[i] \in DOMAIN current
                                            THEN current[COLOUR_KEYS[i]] ELSE Zeros)
                                        \o <<"\n">>

\* a backup of a config in which one key has a value other than 000000 and
\* another key has none
C12_Witness ==
    /\ op.name = "backup"
    /\ \E k \in DOMAIN extract_current_colours(config) :
           extract_current_colours(config)[k] # Zeros
    /\ DOMAIN extract_current_colours(config) # KeySet
    /\ backups[get_colours_backup_path(op.backup_name)] # None

\* C13: a key missing from the live config is only a warning. Randomize,
\* shuffle (colours.rs and main.rs), backup, print and load (of a backup file
\* that exists) run to completion on a config that lacks some of the 19 keys.
C13_MissingKeyNeverAborts ==
    ( /\ op.name \in {"random", "shuffle", "main_shuffle", "backup", "print", "load"}
      /\ DOMAIN extract_current_colours(pre) # KeySet
      /\ op.name = "load" => backups[get_colours_backup_path(op.backup_name)] # None )
        => outcome = "ok"

\* C16: backup then load restores the palette. After a backup under a name,
\* any randomizes and shuffles, and a load of that name, the palette extracted
\* from the config is the one extracted when the backup was made.
C16_LoadRestoresBackup ==
    (op.name = "load" /\ backed_up[get_colours_backup_path(op.backup_name)] # None) =>
        /\ outcome = "ok"
        /\ extract_current_colours(config) =
              backed_up[get_colours_backup_path(op.backup_name)][1]

LowerHexDigits == {"0", "1", "2", "3", "4", "5", "6", "7", "8", "9",
                   "a", "b", "c", "d", "e", "f"}

\* the text after the first '#' of a line
AfterHash(line) == From(line, Find(line, "#") + 1)

\* C17: value validity. Every value in a backup file (a file changes only
\* when a backup writes it), and every value the last operation wrote after a
\* key's '#' in the config file, is 6 characters long, each a hexadecimal
\* digit; and the values generate_random_colour_hex made for the keys a
\* randomize drew are 6 lowercase hex digits, as are the two digits it makes
\* of any byte.
C17_ValuesAreHexCodes ==
    /\ op.name = "backup" =>
          LET written == OutputLines(backups[get_colours_backup_path(op.backup_name)][1])
          IN  \A i \in 1..Len(written) :
                  Find(written[i], "#") # 0 /\ IsHexCode(AfterHash(written[i]))
    /\ wrote =>
          \A i \in 1..Len(Lines(pre)) :
              IsColourLine(Lines(pre)[i]) => IsHexCode(AfterHash(OutputLines(config)[i]))
    /\ op.name = "random" =>
          /\ \A k \in Participants(op.force, op.exception) :
                /\ Len(palette[1][k]) = 6
                /\ \A i \in 1..Len(palette[1][k]) : palette[1][k][i] \in LowerHexDigits
          /\ \A byte \in 0..255 :
                LET digits == Hex2(byte)
                IN  Len(digits) = 2 /\ digits[1] \in LowerHexDigits
                                   /\ digits[2] \in LowerHexDigits

\* a randomize that wrote a drawn value into a colour line, with a backup
\* file in the store
C17_Witness ==
    /\ op.name = "random" /\ wrote
    /\ RewrittenKeys(pre) \cap Participants(op.force, op.exception) # {}
    /\ \E p \in BackupPaths : backups[p] # None

-----------------------------------------------------------------------------
(* Properties of the recognition of colour lines, checked under SpecUpdate *)

\* the keys that are a literal prefix of a line without its indentation
PrefixKeys(line) == {k \in KeySet : StartsWith(TrimStart(line), k)}

\* C14 as stated: no key is a proper prefix of another key, and on every line
\* of the text at most one key matches as a literal prefix.
C14_KeysNonPrefixing ==
    /\ \A a, b \in KeySet : a # b => ~StartsWith(b, a)
    /\ \A i \in 1..Len(Lines(pre)) : Cardinality(PrefixKeys(Lines(pre)[i])) <= 1

\* C14 (amended): color1 is a proper prefix of color10 .. color15, and of no
\* other key is a key a proper prefix; on every line at most one key passes
\* the test of the extraction, and at most one the test of the rewrite, so
\* that the first key that passes is the only one.
C14_OneKeyBindsALine ==
    /\ {ab \in KeySet \X KeySet : ab[1] # ab[2] /\ StartsWith(ab[2], ab[1])}
          = {<<ColorN(1), ColorN(n)>> : n \in 10..15}
    /\ \A i \in 1..Len(Lines(pre)) :
          /\ Cardinality(ExtractKeyIndices(Lines(pre)[i])) <= 1
          /\ Cardinality(UpdateKeyIndices(Lines(pre)[i])) <= 1

\* a rewrite of a text with a line on which two keys match as a literal
\* prefix, one of which the rewrite takes as the line's key
C14_Witness ==
    /\ Applied /\ outcome = "ok"
    /\ \E i \in 1..Len(Lines(pre)) :
          /\ Cardinality(PrefixKeys(Lines(pre)[i])) = 2
          /\ UpdateKeyIndices(Lines(pre)[i]) # {}

\* C15 as stated: with a full palette, a line is rewritten exactly when the
\* extraction records a key from it, and with that key; a line the extraction
\* ignores is in the output as it was.
C15_SameLinesRecognised ==
    (Applied /\ DOMAIN palette[1] = KeySet) =>
        /\ outcome = "ok"
        /\ \A i \in 1..Len(Lines(pre)) :
              LET line == Lines(pre)[i]
              IN  /\ UpdateKeyIndices(line) # {} <=> ExtractKeyIndices(line) # {}
                  /\ ExtractKeyIndices(line) # {} =>
                        MinOf(UpdateKeyIndices(line)) = MinOf(ExtractKeyIndices(line))
                  /\ ExtractKeyIndices(line) = {} => OutputLines(config)[i] = line

\* C15 (amended): with a full palette, every line from which the extraction
\* records a key is rewritten, with that key; so is every other line on which
\* only whitespace separates a key from the first '#', whatever follows the
\* '#': the line becomes <indent><key>, a space, '#' and the key's value. All
\* other lines are in the output as they were.
C15_RewriteIgnoresWhatFollowsHash ==
    (Applied /\ DOMAIN palette[1] = KeySet) =>
        /\ outcome = "ok"
        /\ \A i \in 1..Len(Lines(pre)) :
              LET line == Lines(pre)[i]
                  indent == Len(line) - Len(TrimStart(line))
              IN  /\ ExtractKeyIndices(line) # {} =>
                        /\ IsColourLine(line)
                        /\ COLOUR_KEYS[MinOf(ExtractKeyIndices(line))] = KeyOfLine(line)
                  /\ IsColourLine(line) =>
                        OutputLines(config)[i] =
                            SubSeq(line, 1, indent + Len(KeyOfLine(line)))
                                \o <<" ", "#">> \o palette[1][KeyOfLine(line)]
                  /\ ~IsColourLine(line) => OutputLines(config)[i] = line

\* a rewrite with a full palette of a text with a line the extraction records
\* a key from and a line it ignores although a key is followed by a '#'
C15_Witness ==
    /\ Applied /\ outcome = "ok" /\ DOMAIN palette[1] = KeySet
    /\ \E i \in 1..Len(Lines(pre)) : ExtractKeyIndices(Lines(pre)[i]) # {}
    /\ \E i \in 1..Len(Lines(pre)) :
          IsColourLine(Lines(pre)[i]) /\ ExtractKeyIndices(Lines(pre)[i]) = {}
====
